---- MODULE Spec2Model ----
(***************************************************************************)
(* The calculator engine of src/src/calc/logic.py as a state machine.      *)
(*                                                                         *)
(* A Python str is a sequence of one-character strings, so "12." is        *)
(* <<"1", "2", ".">> and the empty string is << >>.  A decimal.Decimal is  *)
(* the record [sign, int, exp] of its value (-1)^sign * int * 10^exp, the  *)
(* triple the decimal module itself stores.                                *)
(***************************************************************************)
EXTENDS Integers, Sequences, FiniteSets, TLC

(***************************************************************************)
(* Bounds of the model.                                                    *)
(***************************************************************************)
\* Longest text kept in current or in a token.
MaxLen == 3
\* Longest tokens list.
MaxTokens == 4
\* Most process calls in a run.
MaxCalls == 5

(***************************************************************************)
(* Text helpers: the str methods the code uses.                            *)
(***************************************************************************)
DigitChars == <<"0", "1", "2", "3", "4", "5", "6", "7", "8", "9">>

IsDigit(c) == \E i \in 1..10 : DigitChars[i] = c

DigitValue(c) == (CHOOSE i \in 1..10 : DigitChars[i] = c) - 1

Last(seq) == seq[Len(seq)]

Front(seq) == SubSeq(seq, 1, Len(seq) - 1)

\* needle in haystack, for two str: needle is a contiguous run of haystack.
IsSubstring(needle, haystack) ==
    \E i \in 0..(Len(haystack) - Len(needle)) :
        SubSeq(haystack, i + 1, i + Len(needle)) = needle

\* c in text, for a one-character c.
HasChar(text, c) == \E i \in 1..Len(text) : text[i] = c

\* text.rstrip(c)
RECURSIVE RStrip(_, _)
RStrip(text, c) ==
    IF text # << >> /\ Last(text) = c THEN RStrip(Front(text), c) ELSE text

\* sep.join(parts)
RECURSIVE Join(_, _)
Join(parts, sep) ==
    IF parts = << >> THEN << >>
    ELSE IF Len(parts) = 1 THEN parts[1]
    ELSE parts[1] \o sep \o Join(Tail(parts), sep)

\* text.split(), on runs of blanks
RECURSIVE Split(_)
Split(text) ==
    IF text = << >> THEN << >>
    ELSE IF text[1] = " " THEN Split(Tail(text))
    ELSE LET stop == IF HasChar(text, " ")
                     THEN CHOOSE i \in 1..Len(text) :
                              text[i] = " " /\ \A j \in 1..(i - 1) : text[j] # " "
                     ELSE Len(text) + 1
         IN  <<SubSeq(text, 1, stop - 1)>> \o Split(SubSeq(text, stop, Len(text)))

RECURSIVE Pow10(_)
Pow10(n) == IF n <= 0 THEN 1 ELSE 10 * Pow10(n - 1)

\* str(n) for an int n >= 0
RECURSIVE IntText(_)
IntText(n) ==
    IF n < 10 THEN <<DigitChars[n + 1]>>
    ELSE IntText(n \div 10) \o <<DigitChars[(n % 10) + 1]>>

\* int(text) for a text of digits ("" gives 0)
RECURSIVE DigitsValue(_)
DigitsValue(text) ==
    IF text = << >> THEN 0
    ELSE 10 * DigitsValue(Front(text)) + DigitValue(Last(text))

Zeros(n) == [i \in 1..n |-> "0"]

(***************************************************************************)
(* decimal.Decimal                                                         *)
(***************************************************************************)
\* getcontext().prec
Prec == 28

Dec(sign, int, exp) == [sign |-> sign, int |-> int, exp |-> exp]

\* The text after an optional sign.
Unsigned(text) ==
    IF text # << >> /\ text[1] \in {"-", "+"} THEN Tail(text) ELSE text

\* Decimal(text) raises InvalidOperation unless text is a decimal literal: an
\* optional sign, then digits with at most one point and at least one digit.
IsDecimalText(text) ==
    LET body == Unsigned(text)
    IN  /\ \A i \in 1..Len(body) : IsDigit(body[i]) \/ body[i] = "."
        /\ Cardinality({i \in 1..Len(body) : body[i] = "."}) <= 1
        /\ \E i \in 1..Len(body) : IsDigit(body[i])

\* Decimal(text): the digits as written are the coefficient, the number of
\* digits after the point the (negated) exponent.
Decimal(text) ==
    LET body   == Unsigned(text)
        point  == IF HasChar(body, ".")
                  THEN CHOOSE i \in 1..Len(body) : body[i] = "."
                  ELSE Len(body) + 1
        whole  == SubSeq(body, 1, point - 1)
        frac   == SubSeq(body, point + 1, Len(body))
    IN  Dec(IF text # << >> /\ text[1] = "-" THEN 1 ELSE 0,
            DigitsValue(whole \o frac),
            0 - Len(frac))

\* Decimal.normalize(): trailing zeros of the coefficient move to the exponent,
\* and a zero becomes 0E+0 with its sign.
RECURSIVE StripZeros(_)
StripZeros(d) ==
    IF d.int # 0 /\ d.int % 10 = 0
    THEN StripZeros(Dec(d.sign, d.int \div 10, d.exp + 1))
    ELSE d

normalize(d) == IF d.int = 0 THEN Dec(d.sign, 0, 0) ELSE StripZeros(d)

\* format(d, "f"): no exponent; the sign is kept, also on a zero.
FormatF(d) ==
    LET digits == IntText(d.int)
        body   == IF d.exp >= 0 THEN digits \o Zeros(d.exp)
                  ELSE IF Len(digits) > 0 - d.exp
                  THEN SubSeq(digits, 1, Len(digits) + d.exp) \o <<".">>
                       \o SubSeq(digits, Len(digits) + d.exp + 1, Len(digits))
                  ELSE <<"0", ".">> \o Zeros((0 - d.exp) - Len(digits)) \o digits
    IN  (IF d.sign = 1 THEN <<"-">> ELSE << >>) \o body

\* Variant of _format_decimal that formats the value as it stands, without
\* normalize() and without the "-0" rule.
_format_decimal_raw(value) == FormatF(value)

\* if "." in text: text = text.rstrip("0").rstrip(".")
StripFraction(text) ==
    IF HasChar(text, ".") THEN RStrip(RStrip(text, "0"), ".") ELSE text

\* Variant of the returns of "0" without the one for "-0".
CollapseZeroKeepsSign(text) ==
    IF text \in {<< >>, <<"-">>} THEN <<"0">> ELSE text

\* The two returns of "0": for "", "-" and "-0".
CollapseZero(text) ==
    IF text \in {<< >>, <<"-">>} THEN <<"0">>
    ELSE IF text = <<"-", "0">> THEN <<"0">>
    ELSE text

_format_decimal(value) == CollapseZero(StripFraction(FormatF(normalize(value))))

\* _sanitize_number: the canonical text, or the ValueError it raises.
ValueError == <<"ValueError">>

_sanitize_number(text) ==
    IF IsDecimalText(text) THEN _format_decimal(Decimal(text)) ELSE ValueError

(***************************************************************************)
(* Decimal arithmetic.  The model computes exactly; a value whose          *)
(* coefficient reaches Limit is outside the model (OutOfRange), as is a    *)
(* quotient that does not terminate within the digits the model keeps      *)
(* (the code rounds it to Prec digits).                                    *)
(***************************************************************************)
Limit == Pow10(MaxLen + 2)

Min(a, b) == IF a <= b THEN a ELSE b

\* a * b for naturals, saturating at Limit.
Times(a, b) ==
    IF a = 0 \/ b = 0 THEN 0
    ELSE IF a >= Limit \/ b >= Limit \/ a > Limit \div b THEN Limit
    ELSE Min(a * b, Limit)

InRange(d) ==
    d.int < Limit /\ d.exp <= MaxLen + 2 /\ d.exp >= 0 - (MaxLen + 2)

\* The coefficient of d at the smaller exponent e.
Rescaled(d, e) == Times(d.int, Pow10(d.exp - e))

Signed(sign, n) == IF sign = 1 THEN 0 - n ELSE n

\* Decimal.__add__: the smaller exponent; a zero sum is +0 unless both
\* operands are negative zeros.
DecAdd(a, b) ==
    LET e   == Min(a.exp, b.exp)
        ra  == Rescaled(a, e)
        rb  == Rescaled(b, e)
        sum == Signed(a.sign, ra) + Signed(b.sign, rb)
    IN  IF ra >= Limit \/ rb >= Limit THEN Dec(0, Limit, e)
        ELSE IF a.int = 0 /\ b.int = 0 THEN Dec(Min(a.sign, b.sign), 0, e)
        ELSE IF sum < 0 THEN Dec(1, 0 - sum, e)
        ELSE Dec(0, sum, e)

\* Decimal.copy_negate
DecCopyNegate(a) == Dec(1 - a.sign, a.int, a.exp)

\* Decimal.__sub__: self + other.copy_negate()
DecSub(a, b) == DecAdd(a, DecCopyNegate(b))

\* Decimal.__mul__
DecMul(a, b) ==
    Dec((a.sign + b.sign) % 2, Times(a.int, b.int), a.exp + b.exp)

\* Decimal.__neg__: a zero loses its sign.
DecNeg(a) == IF a.int = 0 THEN Dec(0, 0, a.exp) ELSE DecCopyNegate(a)

\* The number of digits k to add after the ideal exponent for the quotient
\* a.int * 10^k / b.int to be whole, or -1 when there is none within the model.
ExactShift(a, b) ==
    LET ks == {k \in 0..Min(MaxLen + 2, Prec) :
                   /\ Times(a.int, Pow10(k)) < Limit
                   /\ (a.int * Pow10(k)) % b.int = 0}
    IN  IF ks = {} THEN 0 - 1 ELSE CHOOSE k \in ks : \A j \in ks : k <= j

\* Decimal.__truediv__ for a divisor that is not zero: the exact quotient at
\* the exponent nearest the ideal one, self.exp - other.exp.
DecDiv(a, b) ==
    LET sign == (a.sign + b.sign) % 2
        k    == ExactShift(a, b)
    IN  IF a.int = 0 THEN Dec(sign, 0, a.exp - b.exp)
        ELSE IF a.int >= Limit \/ b.int >= Limit \/ k < 0
        THEN Dec(sign, Limit, a.exp - b.exp)
        ELSE Dec(sign, (a.int * Pow10(k)) \div b.int, a.exp - b.exp - k)

(***************************************************************************)
(* ast.parse(expression, mode="eval") on the texts the engine builds:      *)
(* numbers, the four operators and blanks.  Python's grammar:              *)
(*     expr   ::= term (("+" | "-") term)*                                 *)
(*     term   ::= factor (("*" | "/") factor)*                             *)
(*     factor ::= ("+" | "-") factor | NUMBER                              *)
(* so "*" and "/" bind tighter than "+" and "-", each chain groups to the  *)
(* left, and the sign of a negative number is a unary operator.            *)
(***************************************************************************)
OPERATORS == {<<"+">>, <<"-">>, <<"*">>, <<"/">>}

\* The lexer: a word "-12" is the operator "-" and the number "12".
RECURSIVE Lex(_)
Lex(words) ==
    IF words = << >> THEN << >>
    ELSE LET w == words[1]
         IN  IF Len(w) > 1 /\ w[1] \in {"+", "-", "*", "/"}
             THEN <<(<<w[1]>>)>> \o Lex(<<Tail(w)>> \o Tail(words))
             ELSE <<w>> \o Lex(Tail(words))

\* A NUMBER: digits, with at most one point; an int with more than one digit
\* does not start with 0 unless it is all zeros.
IsNumberLexeme(w) ==
    /\ IsDecimalText(w)
    /\ IsDigit(w[1]) \/ w[1] = "."
    /\ \/ HasChar(w, ".")
       \/ Len(w) = 1
       \/ w[1] # "0"
       \/ \A i \in 1..Len(w) : w[i] = "0"

Constant(w) == [type |-> "Constant", value |-> w]
UnaryOp(op, operand) == [type |-> "UnaryOp", op |-> op, operand |-> operand]
BinOp(left, op, right) ==
    [type |-> "BinOp", left |-> left, op |-> op, right |-> right]
SyntaxError == [type |-> "SyntaxError"]

\* Each parser returns [node, rest]: the tree read and the lexemes left.
Parsed(node, rest) == [node |-> node, rest |-> rest]

RECURSIVE ParseFactor(_)
ParseFactor(lex) ==
    IF lex = << >> THEN Parsed(SyntaxError, << >>)
    ELSE IF lex[1] \in {<<"+">>, <<"-">>}
    THEN LET r == ParseFactor(Tail(lex))
         IN  IF r.node = SyntaxError THEN r
             ELSE Parsed(UnaryOp(lex[1], r.node), r.rest)
    ELSE IF IsNumberLexeme(lex[1]) THEN Parsed(Constant(lex[1]), Tail(lex))
    ELSE Parsed(SyntaxError, << >>)

\* term: a factor, then ("*" | "/") factor, grouping to the left.
RECURSIVE TermChain(_, _)
TermNext(left, op, r) ==
    IF r.node = SyntaxError THEN r
    ELSE TermChain(BinOp(left, op, r.node), r.rest)

TermChain(left, lex) ==
    IF lex # << >> /\ lex[1] \in {<<"*">>, <<"/">>}
    THEN TermNext(left, lex[1], ParseFactor(Tail(lex)))
    ELSE Parsed(left, lex)

TermStart(f) == IF f.node = SyntaxError THEN f ELSE TermChain(f.node, f.rest)

ParseTerm(lex) == TermStart(ParseFactor(lex))

\* expr: a term, then ("+" | "-") term, grouping to the left.
RECURSIVE ExprChain(_, _)
ExprNext(left, op, r) ==
    IF r.node = SyntaxError THEN r
    ELSE ExprChain(BinOp(left, op, r.node), r.rest)

ExprChain(left, lex) ==
    IF lex # << >> /\ lex[1] \in {<<"+">>, <<"-">>}
    THEN ExprNext(left, lex[1], ParseTerm(Tail(lex)))
    ELSE Parsed(left, lex)

ExprStart(t) == IF t.node = SyntaxError THEN t ELSE ExprChain(t.node, t.rest)

ParseExpr(lex) == ExprStart(ParseTerm(lex))

\* The whole text must be one expression.
WholeInput(r) ==
    IF r.node # SyntaxError /\ r.rest = << >> THEN r.node ELSE SyntaxError

ast_parse(expression) == WholeInput(ParseExpr(Lex(Split(expression))))

(***************************************************************************)
(* _SafeEvaluator.visit.  A result is [kind, value]: a Decimal, the        *)
(* ZeroDivisionError raised, or OutOfRange when the value left the model.  *)
(***************************************************************************)
Value(d) == [kind |-> "Decimal", value |-> d]
Raised(kind) == [kind |-> kind, value |-> Dec(0, 0, 0)]

\* Decimal(str(node.value)): an int literal keeps its digits; a float literal
\* (one with a point) goes through float and str, which write the shortest
\* digits of the value, with ".0" on a whole number.  A float keeps 15
\* significant digits exactly; the texts of the model are far shorter.
ConstantValue(w) ==
    LET d == Decimal(w)
        n == normalize(d)
    IN  IF ~HasChar(w, ".") THEN d
        ELSE IF n.exp >= 0 THEN Dec(0, Times(n.int, Pow10(n.exp + 1)), 0 - 1)
        ELSE n

ApplyBinOp(op, left, right) ==
    CASE op = <<"+">> -> Value(DecAdd(left, right))
      [] op = <<"-">> -> Value(DecSub(left, right))
      [] op = <<"*">> -> Value(DecMul(left, right))
      [] op = <<"/">> -> IF right.int = 0 THEN Raised("ZeroDivisionError")
                         ELSE Value(DecDiv(left, right))

Checked(r) ==
    IF r.kind = "Decimal" /\ ~InRange(r.value) THEN Raised("OutOfRange") ELSE r

RECURSIVE visit(_)
visit(node) ==
    CASE node.type = "BinOp" ->
            LET left == visit(node.left)
            IN  IF left.kind # "Decimal" THEN left
                ELSE LET right == visit(node.right)
                     IN  IF right.kind # "Decimal" THEN right
                         ELSE Checked(ApplyBinOp(node.op, left.value, right.value))
      [] node.type = "UnaryOp" ->
            LET operand == visit(node.operand)
            IN  IF operand.kind # "Decimal" THEN operand
                ELSE IF node.op = <<"+">> THEN operand
                ELSE Value(DecNeg(operand.value))
      [] node.type = "Constant" -> Checked(Value(ConstantValue(node.value)))

\* safe_calculate: the value of the expression, or what it raises.
VisitTree(tree) ==
    IF tree = SyntaxError THEN Raised("SyntaxError") ELSE visit(tree)

safe_calculate(expression) ==
    IF Split(expression) = << >> THEN Value(Dec(0, 0, 0))
    ELSE VisitTree(ast_parse(expression))

(***************************************************************************)
(* CalculatorState and the handlers of CalculatorEngine.  A handler maps   *)
(* the state before to [state, raised]: the state it leaves and the        *)
(* exception that leaves it, if any.                                       *)
(***************************************************************************)
None == "None"

\* The three messages of the code are Japanese texts; these stand for
\* "数値の解析に失敗しました", "ゼロ除算エラー" and "式の解析に失敗しました".
ParseFailureMessage == "number parse failure"
DivideByZeroMessage == "division by zero"
ExpressionFailureMessage == "expression parse failure"

State(tokens_, current_, overwrite_, error_) ==
    [tokens |-> tokens_, current |-> current_,
     overwrite |-> overwrite_, error |-> error_]

\* CalculatorState(): the field defaults.
CalculatorState == State(<< >>, <<"0">>, TRUE, None)

expression_text(s) == Join(s.tokens, <<" ">>)

get_display(s) == <<expression_text(s), s.current, s.error>>

Done(s) == [state |-> s, raised |-> None]
Raise(s, exception) == [state |-> s, raised |-> exception]

\* Variant of _reset_on_error that leaves an error state as it is.
_reset_on_error_skipped(s) == s

_reset_on_error(s) == IF s.error # None THEN CalculatorState ELSE s

\* Variant of _set_error without tokens.clear().
_set_error_keeps_tokens(s, message) ==
    [s EXCEPT !.error = message, !.current = <<"0">>, !.overwrite = TRUE]

\* Variant of _set_error that leaves the entry and the overwrite flag alone.
_set_error_keeps_current(s, message) ==
    [s EXCEPT !.error = message, !.tokens = << >>]

_set_error(s, message) ==
    [s EXCEPT !.error = message, !.tokens = << >>,
              !.current = <<"0">>, !.overwrite = TRUE]

_input_digit(s0, digit) ==
    LET s == _reset_on_error(s0)
    IN  IF s.overwrite
        THEN Done([s EXCEPT !.current = digit, !.overwrite = FALSE])
        ELSE IF s.current = <<"0">> THEN Done([s EXCEPT !.current = digit])
        ELSE Done([s EXCEPT !.current = s.current \o digit])

\* Variant of _input_decimal_point without the test for a point already there.
_input_decimal_point_unchecked(s0) ==
    LET s == _reset_on_error(s0)
    IN  IF s.overwrite
        THEN Done([s EXCEPT !.current = <<"0", ".">>, !.overwrite = FALSE])
        ELSE Done([s EXCEPT !.current = Append(s.current, ".")])

_input_decimal_point(s0) ==
    LET s == _reset_on_error(s0)
    IN  IF s.overwrite
        THEN Done([s EXCEPT !.current = <<"0", ".">>, !.overwrite = FALSE])
        ELSE IF ~HasChar(s.current, ".")
        THEN Done([s EXCEPT !.current = s.current \o <<".">>])
        ELSE Done(s)

\* Variant of _commit_current that commits current as typed, not its
\* canonical text.
_commit_current_raw(s) ==
    IF ~IsDecimalText(s.current) THEN Raise(s, "ValueError")
    ELSE IF s.tokens # << >> /\ ~(Last(s.tokens) \in OPERATORS)
    THEN Done([s EXCEPT !.tokens = Append(Front(s.tokens), s.current)])
    ELSE Done([s EXCEPT !.tokens = Append(s.tokens, s.current)])

\* Raises the ValueError of _sanitize_number before it changes anything.
CommitValue(s, value) ==
    IF value = ValueError THEN Raise(s, "ValueError")
    ELSE IF s.tokens # << >>
    THEN IF Last(s.tokens) \in OPERATORS
         THEN Done([s EXCEPT !.tokens = Append(s.tokens, value)])
         ELSE Done([s EXCEPT !.tokens = Append(Front(s.tokens), value)])
    ELSE Done([s EXCEPT !.tokens = Append(s.tokens, value)])

\* Variant of _commit_current that commits nothing.
_commit_current_skipped(s) == Done(s)

_commit_current(s) == CommitValue(s, _sanitize_number(s.current))

\* Variant of the lines after the commit that sets overwrite and forgets the
\* operator.
PushOperatorForgotten(c, operator) ==
    IF c.raised # None THEN c ELSE Done([c.state EXCEPT !.overwrite = TRUE])

\* The lines of _apply_operator after self._commit_current(), on what that
\* call left: there is no try, so what it raises leaves _apply_operator too.
PushOperator(c, operator) ==
    IF c.raised # None THEN c
    ELSE IF c.state.tokens # << >> /\ Last(c.state.tokens) \in OPERATORS
    THEN Done([c.state EXCEPT !.tokens = Append(Front(c.state.tokens), operator),
                              !.overwrite = TRUE])
    ELSE Done([c.state EXCEPT !.tokens = Append(c.state.tokens, operator),
                              !.overwrite = TRUE])

_apply_operator(s0, operator) ==
    PushOperator(_commit_current(_reset_on_error(s0)), operator)

\* The local list `tokens` of _calculate_result once current is merged in, or
\* ValueError when current does not parse.
MergeCurrent(tokens, overwrite_, current_value) ==
    IF ~overwrite_ \/ (tokens # << >> /\ Last(tokens) \in OPERATORS)
    THEN IF current_value = ValueError THEN ValueError
         ELSE IF tokens # << >> /\ Last(tokens) \in OPERATORS
         THEN Append(tokens, current_value)
         ELSE Append(Front(tokens), current_value)
    ELSE IF tokens # << >> /\ Last(tokens) \in OPERATORS
    THEN Front(tokens)
    ELSE tokens

EvaluationList(s) ==
    MergeCurrent(s.tokens, s.overwrite, _sanitize_number(s.current))

\* The branch for an empty tokens list.
CanonicalizeCurrent(s, result) ==
    IF result = ValueError
    THEN Done(_set_error(s, ParseFailureMessage))
    ELSE Done([s EXCEPT !.current = result, !.overwrite = TRUE])

\* The try around safe_calculate and the lines after it.  A SyntaxError is
\* none of the exceptions caught, and leaves _calculate_result.
FinishCalculation(s, result_decimal) ==
    CASE result_decimal.kind = "ZeroDivisionError" ->
             Done(_set_error(s, DivideByZeroMessage))
      [] result_decimal.kind \in {"InvalidOperation", "ValueError"} ->
             Done(_set_error(s, ExpressionFailureMessage))
      [] result_decimal.kind = "Decimal" ->
             Done([s EXCEPT !.current = _format_decimal(result_decimal.value),
                            !.tokens = << >>,
                            !.overwrite = TRUE,
                            !.error = None])
      [] OTHER -> Raise(s, result_decimal.kind)

EvaluateList(s, tokens) ==
    IF tokens = ValueError
    THEN Done(_set_error(s, ParseFailureMessage))
    ELSE FinishCalculation(s, safe_calculate(Join(tokens, <<" ">>)))

CalculateFrom(s) ==
    IF s.tokens = << >>
    THEN CanonicalizeCurrent(s, _sanitize_number(s.current))
    ELSE EvaluateList(s, EvaluationList(s))

_calculate_result(s0) == CalculateFrom(_reset_on_error(s0))

\* Variant of _clear_all that resets the entry and keeps the tokens.
_clear_all_keeps_tokens(s) ==
    Done([s EXCEPT !.current = <<"0">>, !.overwrite = TRUE, !.error = None])

_clear_all(s) == Done(CalculatorState)

\* Variant of _clear_entry that sets overwrite and leaves the entry as typed.
_clear_entry_keeps_current(s0) ==
    Done([_reset_on_error(s0) EXCEPT !.overwrite = TRUE])

_clear_entry(s0) ==
    LET s == _reset_on_error(s0)
    IN  Done([s EXCEPT !.current = <<"0">>, !.overwrite = TRUE])

_toggle_sign(s0) ==
    LET s == _reset_on_error(s0)
        value == DecMul(Decimal(s.current), Dec(1, 1, 0))
    IN  IF ~IsDecimalText(s.current)
        THEN Done(_set_error(s, ParseFailureMessage))
        ELSE Done([s EXCEPT !.current = _format_decimal(value),
                            !.overwrite = FALSE])

\* The value _percent computes from a current that parses.
PercentValue(s) ==
    LET current_value == Decimal(s.current)
        hundred == Dec(0, 100, 0)
        base == IF IsDecimalText(s.tokens[Len(s.tokens) - 1])
                THEN Decimal(s.tokens[Len(s.tokens) - 1])
                ELSE Dec(0, 0, 0)
    IN  IF Len(s.tokens) >= 2 /\ Last(s.tokens) \in OPERATORS
        THEN DecDiv(DecMul(base, current_value), hundred)
        ELSE DecDiv(current_value, hundred)

StorePercent(s, value) ==
    IF ~InRange(value) THEN Raise(s, "OutOfRange")
    ELSE Done([s EXCEPT !.current = _format_decimal(value),
                        !.overwrite = FALSE])

_percent(s0) ==
    LET s == _reset_on_error(s0)
    IN  IF ~IsDecimalText(s.current)
        THEN Done(_set_error(s, ParseFailureMessage))
        ELSE StorePercent(s, PercentValue(s))

\* Variant of _backspace without the collapse of "-" and "-0".
_backspace_keeps_sign(s0) ==
    LET s == _reset_on_error(s0)
    IN  IF s.overwrite THEN Done([s EXCEPT !.current = <<"0">>])
        ELSE IF Len(s.current) > 1
        THEN Done([s EXCEPT !.current = Front(s.current)])
        ELSE Done([s EXCEPT !.current = <<"0">>, !.overwrite = TRUE])

\* Variant of _backspace that leaves the entry alone while overwrite is set.
_backspace_keeps_value(s0) ==
    LET s == _reset_on_error(s0)
        shorter == Front(s.current)
    IN  IF s.overwrite THEN Done(s)
        ELSE IF Len(s.current) > 1
        THEN IF shorter \in {<<"-">>, <<"-", "0">>}
             THEN Done([s EXCEPT !.current = <<"0">>, !.overwrite = TRUE])
             ELSE Done([s EXCEPT !.current = shorter])
        ELSE Done([s EXCEPT !.current = <<"0">>, !.overwrite = TRUE])

_backspace(s0) ==
    LET s == _reset_on_error(s0)
        shorter == Front(s.current)
    IN  IF s.overwrite THEN Done([s EXCEPT !.current = <<"0">>])
        ELSE IF Len(s.current) > 1
        THEN IF shorter \in {<<"-">>, <<"-", "0">>}
             THEN Done([s EXCEPT !.current = <<"0">>, !.overwrite = TRUE])
             ELSE Done([s EXCEPT !.current = shorter])
        ELSE Done([s EXCEPT !.current = <<"0">>, !.overwrite = TRUE])

(***************************************************************************)
(* CalculatorEngine.process                                                *)
(***************************************************************************)
\* The str "0123456789" of the test `command in "0123456789"`.
DigitString == DigitChars

\* The keys of the dispatcher dict.  The sign-toggle glyph and the backspace
\* glyph of the code are single characters outside ASCII, named here.
KeyClearAll == <<"C">>
KeyClearEntry == <<"C", "E">>
KeyEquals == <<"=">>
KeyPercent == <<"%">>
KeyToggleSignText == <<"+", "/", "-">>
KeyToggleSignGlyph == <<"PLUS-MINUS SIGN">>
KeyBackspaceGlyph == <<"ERASE TO THE LEFT">>
KeyBackspaceText == <<"B", "a", "c", "k", "s", "p", "a", "c", "e">>

ToggleSignKeys == {KeyToggleSignText, KeyToggleSignGlyph}
BackspaceKeys == {KeyBackspaceGlyph, KeyBackspaceText}
DispatcherKeys ==
    {KeyClearAll, KeyClearEntry, KeyEquals, KeyPercent}
        \cup ToggleSignKeys \cup BackspaceKeys

dispatcher(s, command) ==
    CASE command = KeyClearAll -> _clear_all(s)
      [] command = KeyClearEntry -> _clear_entry(s)
      [] command = KeyEquals -> _calculate_result(s)
      [] command = KeyPercent -> _percent(s)
      [] command \in ToggleSignKeys -> _toggle_sign(s)
      [] command \in BackspaceKeys -> _backspace(s)

\* Which branch of process a command takes.
IsDigitCommand(command) == IsSubstring(command, DigitString)
IsPointCommand(command) == ~IsDigitCommand(command) /\ command = <<".">>
IsOperatorCommand(command) ==
    ~IsDigitCommand(command) /\ command # <<".">> /\ command \in OPERATORS
IsDispatcherCommand(command) ==
    /\ ~IsDigitCommand(command) /\ command # <<".">>
    /\ command \notin OPERATORS /\ command \in DispatcherKeys
IsOtherCommand(command) ==
    /\ ~IsDigitCommand(command) /\ command # <<".">>
    /\ command \notin OPERATORS /\ command \notin DispatcherKeys

handle(s, command) ==
    IF IsDigitCommand(command) THEN _input_digit(s, command)
    ELSE IF command = <<".">> THEN _input_decimal_point(s)
    ELSE IF command \in OPERATORS THEN _apply_operator(s, command)
    ELSE IF command \in DispatcherKeys THEN dispatcher(s, command)
    ELSE Done(s)

\* What the call gives its caller: the display triple, or the exception.
Returned(triple) == [kind |-> "return", value |-> triple]
Propagated(exception) == [kind |-> "raise", value |-> exception]

\* return self.get_display(), unless the handler raised.
Outcome(h) ==
    [state |-> h.state,
     result |-> IF h.raised = None THEN Returned(get_display(h.state))
                ELSE Propagated(h.raised)]

process(s, command) == Outcome(handle(s, command))

(***************************************************************************)
(* The state machine: one engine and the calls of process made on it.      *)
(* Besides the four fields of the engine's state, the model records the    *)
(* last call: the state it started from, its argument and its outcome.     *)
(***************************************************************************)
VARIABLES
    tokens,     \* state.tokens
    current,    \* state.current
    overwrite,  \* state.overwrite
    error,      \* state.error
    before,     \* the state the last process call started from
    command,    \* the argument of the last process call
    result,     \* what that call returned or raised
    calls       \* the number of process calls so far

vars == <<tokens, current, overwrite, error, before, command, result, calls>>

state == State(tokens, current, overwrite, error)

\* The commands the model sends: two digit keys, every other key of the input
\* alphabet, the empty string and a string that is no key.
InputDigits == {<<"0">>, <<"5">>}
OtherStrings == {<< >>, <<"a">>}
Commands ==
    InputDigits \cup {<<".">>} \cup OPERATORS
        \cup {KeyClearAll, KeyClearEntry, KeyEquals, KeyPercent,
              KeyToggleSignGlyph, KeyBackspaceGlyph}
        \cup OtherStrings

\* The states the model keeps.
InBounds(s) ==
    /\ Len(s.tokens) <= MaxTokens
    /\ Len(s.current) <= MaxLen
    /\ \A i \in 1..Len(s.tokens) : Len(s.tokens[i]) <= MaxLen

NoCall == <<"no call yet">>

Init ==
    /\ tokens = CalculatorState.tokens
    /\ current = CalculatorState.current
    /\ overwrite = CalculatorState.overwrite
    /\ error = CalculatorState.error
    /\ before = CalculatorState
    /\ command = NoCall
    /\ result = Returned(get_display(CalculatorState))
    /\ calls = 0

\* The call process(cmd) with outcome p, kept when p is within the model.
Record(cmd, p) ==
    /\ p.result # Propagated("OutOfRange")
    /\ InBounds(p.state)
    /\ tokens' = p.state.tokens
    /\ current' = p.state.current
    /\ overwrite' = p.state.overwrite
    /\ error' = p.state.error
    /\ before' = state
    /\ command' = cmd
    /\ result' = p.result
    /\ calls' = calls + 1

Call(cmd) == calls < MaxCalls /\ Record(cmd, process(state, cmd))

\* One action for each branch of process and each handler of the dispatcher.
InputDigit ==
    \E cmd \in Commands :
        IsDigitCommand(cmd) /\ Call(cmd)

InputDecimalPoint ==
    \E cmd \in Commands :
        IsPointCommand(cmd) /\ Call(cmd)

ApplyOperator ==
    \E cmd \in Commands :
        IsOperatorCommand(cmd) /\ Call(cmd)

ClearAll ==
    \E cmd \in Commands :
        /\ IsDispatcherCommand(cmd) /\ cmd = KeyClearAll
        /\ Call(cmd)

ClearEntry ==
    \E cmd \in Commands :
        /\ IsDispatcherCommand(cmd) /\ cmd = KeyClearEntry
        /\ Call(cmd)

CalculateResult ==
    \E cmd \in Commands :
        /\ IsDispatcherCommand(cmd) /\ cmd = KeyEquals
        /\ Call(cmd)

Percent ==
    \E cmd \in Commands :
        /\ IsDispatcherCommand(cmd) /\ cmd = KeyPercent
        /\ Call(cmd)

ToggleSign ==
    \E cmd \in Commands :
        /\ IsDispatcherCommand(cmd) /\ cmd \in ToggleSignKeys
        /\ Call(cmd)

Backspace ==
    \E cmd \in Commands :
        /\ IsDispatcherCommand(cmd) /\ cmd \in BackspaceKeys
        /\ Call(cmd)

OtherCommand ==
    \E cmd \in Commands : IsOtherCommand(cmd) /\ Call(cmd)

Next ==
    \/ InputDigit
    \/ InputDecimalPoint
    \/ ApplyOperator
    \/ ClearAll
    \/ ClearEntry
    \/ CalculateResult
    \/ Percent
    \/ ToggleSign
    \/ Backspace
    \/ OtherCommand

Spec == Init /\ [][Next]_vars

(***************************************************************************)
(* The same engine when its caller sends only commands of the input        *)
(* alphabet: one digit, ".", an operator, or a key of the dispatcher.      *)
(***************************************************************************)
AlphabetDigit == \E cmd \in InputDigits : IsDigitCommand(cmd) /\ Call(cmd)

NextAlphabet ==
    \/ AlphabetDigit
    \/ InputDecimalPoint
    \/ ApplyOperator
    \/ ClearAll
    \/ ClearEntry
    \/ CalculateResult
    \/ Percent
    \/ ToggleSign
    \/ Backspace

SpecAlphabet == Init /\ [][NextAlphabet]_vars

(***************************************************************************)
(* _sanitize_number on its own: the variable current holds the text, drawn *)
(* from every string of at most MaxLen characters of a decimal literal,    *)
(* and each call replaces it by what _sanitize_number returns for it.      *)
(***************************************************************************)
TextChars == {"0", "5", ".", "-", "+"}
Texts == UNION {[1..n -> TextChars] : n \in 0..MaxLen}

SanitizeCall == <<"_sanitize_number">>

SanitizeInit ==
    /\ tokens = << >>
    /\ current \in Texts
    /\ overwrite = FALSE
    /\ error = None
    /\ before = CalculatorState
    /\ command = NoCall
    /\ result = Returned(<< >>)
    /\ calls = 0

Sanitize ==
    /\ calls < MaxCalls
    /\ before' = state
    /\ command' = SanitizeCall
    /\ result' = IF _sanitize_number(current) = ValueError
                 THEN Propagated("ValueError")
                 ELSE Returned(_sanitize_number(current))
    /\ current' = IF _sanitize_number(current) = ValueError
                  THEN current
                  ELSE _sanitize_number(current)
    /\ calls' = calls + 1
    /\ UNCHANGED <<tokens, overwrite, error>>

SanitizeSpec == SanitizeInit /\ [][Sanitize]_vars

(***************************************************************************)
(* Notions the properties below are stated with.                           *)
(***************************************************************************)
\* The state a call starts from once a pending error has been cleared.
Started == IF before.error = None THEN before ELSE State(<< >>, <<"0">>, TRUE, None)

\* A canonical decimal text: an optional "-", digits with no leading zero
\* other than a lone "0", then possibly a point and a fraction that does not
\* end in "0"; never a negative zero.
IsCanonicalDecimal(text) ==
    LET neg   == text # << >> /\ text[1] = "-"
        body  == IF neg THEN Tail(text) ELSE text
        point == IF HasChar(body, ".")
                 THEN CHOOSE i \in 1..Len(body) : body[i] = "."
                 ELSE Len(body) + 1
        whole == SubSeq(body, 1, point - 1)
        frac  == SubSeq(body, point + 1, Len(body))
    IN  /\ \A i \in 1..Len(whole) : IsDigit(whole[i])
        /\ \A i \in 1..Len(frac) : IsDigit(frac[i])
        /\ whole # << >>
        /\ Len(whole) = 1 \/ whole[1] # "0"
        /\ HasChar(body, ".") => (frac # << >> /\ Last(frac) # "0")
        /\ neg => \E i \in 1..Len(body) : IsDigit(body[i]) /\ body[i] # "0"

\* Two Decimals are the same number.
NumEqual(a, b) ==
    LET e == Min(a.exp, b.exp)
    IN  \/ a.int = 0 /\ b.int = 0
        \/ /\ a.sign = b.sign
           /\ a.int * Pow10(a.exp - e) = b.int * Pow10(b.exp - e)

IsNumberToken(token) == token \notin OPERATORS /\ IsDecimalText(token)

\* number, operator, number, ..., number
IsWellFormedList(list) ==
    /\ Len(list) % 2 = 1
    /\ \A i \in 1..Len(list) :
           IF i % 2 = 1 THEN IsNumberToken(list[i]) ELSE list[i] \in OPERATORS

\* The fold ((n0 op1 n1) op2 n2) ... opk nk of a well-formed list.
RECURSIVE FoldFrom(_, _)
FoldFrom(acc, rest) ==
    IF acc.kind # "Decimal" \/ rest = << >> THEN acc
    ELSE FoldFrom(Checked(ApplyBinOp(rest[1], acc.value, Decimal(rest[2]))),
                  SubSeq(rest, 3, Len(rest)))

LeftToRight(list) == FoldFrom(Value(Decimal(list[1])), Tail(list))

\* The list holds a division by a token that is exactly zero.
HasZeroDivisor(list) ==
    \E i \in 1..(Len(list) - 1) :
        /\ list[i] = <<"/">>
        /\ IsNumberToken(list[i + 1])
        /\ Decimal(list[i + 1]).int = 0

\* The last call was Equals and it built an evaluation list.
EqualsEvaluated ==
    /\ command = KeyEquals
    /\ Started.tokens # << >>
    /\ EvaluationList(Started) # ValueError

(***************************************************************************)
(* C1: process("C") from any state leaves the identity state (tokens       *)
(* empty, current "0", overwrite true, no error) and returns the display   *)
(* triple ("", "0", None).                                                 *)
(***************************************************************************)
C1_ClearAllGivesIdentity ==
    command = KeyClearAll =>
        /\ tokens = << >>
        /\ current = <<"0">>
        /\ overwrite = TRUE
        /\ error = None
        /\ result = Returned(<< << >>, <<"0">>, None >>)

\* C1 witness: C was processed with tokens pending and an entry being typed.
C1_Witness ==
    /\ command = KeyClearAll
    /\ before.tokens # << >>
    /\ before.current # <<"0">>
    /\ ~before.overwrite
    /\ tokens = << >>

(***************************************************************************)
(* C2: Equals evaluates the evaluation list strictly left to right, with   *)
(* no operator precedence: whenever the fold of the list is a number,      *)
(* current is the canonical text of that number.                           *)
(***************************************************************************)
C2_EqualsFoldsLeftToRight ==
    (/\ EqualsEvaluated
     /\ IsWellFormedList(EvaluationList(Started))
     /\ LeftToRight(EvaluationList(Started)).kind = "Decimal")
        => /\ error = None
           /\ IsDecimalText(current)
           /\ NumEqual(Decimal(current),
                       LeftToRight(EvaluationList(Started)).value)

(***************************************************************************)
(* C3: an operator command processed while the last token is an operator   *)
(* and overwrite is true replaces that operator; tokens does not grow.     *)
(***************************************************************************)
C3_OperatorReplacesTrailingOperator ==
    (/\ command \in OPERATORS
     /\ before.error = None
     /\ before.overwrite
     /\ before.tokens # << >>
     /\ Last(before.tokens) \in OPERATORS)
        => /\ result.kind = "return"
           /\ tokens = Append(Front(before.tokens), command)

(***************************************************************************)
(* C4: in every reachable state tokens alternates number, operator,        *)
(* number, ...: a number first, never two operators or two numbers side    *)
(* by side, and every number in canonical decimal form.                    *)
(***************************************************************************)
C4_TokensAlternate ==
    \A i \in 1..Len(tokens) :
        IF i % 2 = 1
        THEN tokens[i] \notin OPERATORS /\ IsCanonicalDecimal(tokens[i])
        ELSE tokens[i] \in OPERATORS

\* C4 witness: two numbers and two operators are pending, the second number
\* committed from an entry that was not canonical as typed.
C4_Witness ==
    /\ Len(tokens) = 4
    /\ command \in OPERATORS
    /\ ~before.overwrite
    /\ ~IsCanonicalDecimal(before.current)
    /\ tokens[3] # before.current

(***************************************************************************)
(* C5: when Equals evaluates a list that holds a division by a token that  *)
(* is exactly zero, the engine enters the error state with the message of  *)
(* a division by zero, current "0", tokens empty and overwrite true.       *)
(***************************************************************************)
C5_DivisionByZeroIsAnError ==
    (EqualsEvaluated /\ HasZeroDivisor(EvaluationList(Started)))
        => /\ error = DivideByZeroMessage
           /\ current = <<"0">>
           /\ tokens = << >>
           /\ overwrite = TRUE
           /\ result = Returned(<< << >>, <<"0">>, DivideByZeroMessage >>)

\* C5 witness: Equals on "5 / 0", the zero typed as the right operand.
C5_Witness ==
    /\ command = KeyEquals
    /\ before.tokens = << <<"5">>, <<"/">> >>
    /\ before.current = <<"0">>
    /\ ~before.overwrite
    /\ error = DivideByZeroMessage

(***************************************************************************)
(* C6: a command that is none of the listed tokens (one digit, ".", an     *)
(* operator, "C", "CE", "=", "%", a sign-toggle token, a backspace token)  *)
(* changes nothing and returns the display triple; the empty string and    *)
(* strings of several characters are such commands.                        *)
(***************************************************************************)
IsListedCommand(cmd) ==
    \/ Len(cmd) = 1 /\ IsDigit(cmd[1])
    \/ cmd = <<".">>
    \/ cmd \in OPERATORS
    \/ cmd \in DispatcherKeys

C6_UnlistedCommandIsNoOp ==
    (command # NoCall /\ ~IsListedCommand(command))
        => /\ state = before
           /\ result = Returned(get_display(before))

(***************************************************************************)
(* C7: no process call ends with an exception that reaches the caller.     *)
(***************************************************************************)
C7_NoExceptionReachesCaller == result.kind = "return"

(***************************************************************************)
(* C8: an input processed while error is set gives the state that the same *)
(* input gives on a freshly constructed engine.                            *)
(***************************************************************************)
\* As claimed, for every input:
C8_AnyInputAfterErrorStartsFresh ==
    (command # NoCall /\ before.error # None)
        => state = process(State(<< >>, <<"0">>, TRUE, None), command).state

\* As the code has it: for every input that process hands to a handler; a
\* string that is no command changes nothing, the error included.
C8_HandledInputAfterErrorStartsFresh ==
    (command # NoCall /\ before.error # None)
        => IF IsOtherCommand(command)
           THEN state = before /\ result = Returned(get_display(before))
           ELSE LET fresh == process(State(<< >>, <<"0">>, TRUE, None), command)
                IN  state = fresh.state /\ result = fresh.result

\* C8 witness: after a division by zero, the key 5 gives current "5" and no
\* error.
C8_Witness ==
    /\ before.error = DivideByZeroMessage
    /\ command = <<"5">>
    /\ current = <<"5">>
    /\ ~overwrite
    /\ error = None

(***************************************************************************)
(* C9: after an Equals that does not end in an error, tokens is empty,     *)
(* overwrite is true, error is none and current is the canonical decimal   *)
(* text of the evaluated value (of current itself when tokens was empty).  *)
(***************************************************************************)
C9_EqualsLeavesCanonicalResult ==
    (command = KeyEquals /\ result.kind = "return" /\ error = None)
        => /\ tokens = << >>
           /\ overwrite = TRUE
           /\ result = Returned(<< << >>, current, None >>)
           /\ IsCanonicalDecimal(current)
           /\ IF Started.tokens = << >>
              THEN /\ IsDecimalText(Started.current)
                   /\ NumEqual(Decimal(current), Decimal(Started.current))
              ELSE LET evaluated ==
                           safe_calculate(Join(EvaluationList(Started), <<" ">>))
                   IN  /\ evaluated.kind = "Decimal"
                       /\ NumEqual(Decimal(current), evaluated.value)

\* C9 witness: Equals on "5 * 0.5" leaves "2.5".
C9_Witness ==
    /\ command = KeyEquals
    /\ before.tokens = << <<"5">>, <<"*">> >>
    /\ before.current = <<"0", ".", "5">>
    /\ current = <<"2", ".", "5">>
    /\ tokens = << >>
    /\ error = None

(***************************************************************************)
(* C10: Equals processed when overwrite is true and the last token is an   *)
(* operator drops that operator and evaluates only the tokens before it,   *)
(* so 5,+,= gives "5".                                                     *)
(***************************************************************************)
C10_EqualsDropsTrailingOperator ==
    (/\ command = KeyEquals
     /\ before.error = None
     /\ before.overwrite
     /\ before.tokens # << >>
     /\ Last(before.tokens) \in OPERATORS
     /\ IsWellFormedList(Front(before.tokens))
     /\ LeftToRight(Front(before.tokens)).kind = "Decimal")
        => /\ error = None
           /\ IsDecimalText(current)
           /\ NumEqual(Decimal(current),
                       LeftToRight(Front(before.tokens)).value)

(***************************************************************************)
(* C11: Percent sets current to the canonical text of base * current / 100 *)
(* when tokens has at least two entries and ends with an operator (base    *)
(* the second-to-last token), and of current / 100 otherwise; it leaves    *)
(* tokens unchanged and sets overwrite to false.                           *)
(***************************************************************************)
PercentOf(s) ==
    IF Len(s.tokens) >= 2 /\ Last(s.tokens) \in OPERATORS
    THEN DecDiv(DecMul(Decimal(s.tokens[Len(s.tokens) - 1]),
                       Decimal(s.current)),
                Dec(0, 100, 0))
    ELSE DecDiv(Decimal(s.current), Dec(0, 100, 0))

C11_PercentStoresPercentage ==
    command = KeyPercent
        => /\ result.kind = "return"
           /\ tokens = before.tokens
           /\ overwrite = FALSE
           /\ IsDecimalText(Started.current)
           /\ current = _format_decimal(PercentOf(Started))

(***************************************************************************)
(* C12: ClearEntry from a state without error sets current to "0" and      *)
(* overwrite to true and leaves tokens unchanged: the state it leaves is a *)
(* function of tokens alone, so the entry it discards has no influence on  *)
(* what follows.                                                           *)
(***************************************************************************)
C12_ClearEntryDiscardsEntry ==
    (command = KeyClearEntry /\ before.error = None)
        => /\ state = State(before.tokens, <<"0">>, TRUE, None)
           /\ result = Returned(<<expression_text(before), <<"0">>, None>>)

\* C12 witness: CE discarded a typed entry while a number and an operator
\* were pending.
C12_Witness ==
    /\ command = KeyClearEntry
    /\ before.error = None
    /\ before.tokens # << >>
    /\ ~before.overwrite
    /\ IsDecimalText(before.current)
    /\ before.current # <<"0">>
    /\ current = <<"0">>
    /\ overwrite
    /\ tokens = before.tokens

(***************************************************************************)
(* C13: Backspace processed in a state where overwrite is true does not    *)
(* change the value: current is the same before and after, and overwrite   *)
(* stays true; also right after an operator and right after Equals.        *)
(***************************************************************************)
\* As claimed: current is what it was.
C13_BackspaceKeepsValueWhenOverwrite ==
    (command \in BackspaceKeys /\ before.overwrite)
        => current = before.current /\ overwrite = TRUE

\* As the code has it: current becomes "0", whatever it was; overwrite stays
\* true and tokens stay as they were.
C13_BackspaceZeroesEntryWhenOverwrite ==
    (command \in BackspaceKeys /\ before.overwrite)
        => /\ current = <<"0">>
           /\ overwrite = TRUE
           /\ tokens = before.tokens
           /\ error = None

\* C13 witness: Backspace right after an operator, the display showing the
\* committed operand, not "0".
C13_Witness ==
    /\ command \in BackspaceKeys
    /\ before.overwrite
    /\ before.tokens # << >>
    /\ Last(before.tokens) \in OPERATORS
    /\ before.current # <<"0">>
    /\ current = <<"0">>
    /\ overwrite

(***************************************************************************)
(* C14: from a state without error, ToggleSign processed twice in a row    *)
(* leaves current equal to the canonical form of the current it started    *)
(* from, leaves tokens unchanged and ends with overwrite false.            *)
(***************************************************************************)
\* In a step that processes the second ToggleSign, the unprimed `before` is
\* the state the first one started from.
C14_ToggleSignTwiceRestores ==
    [][(/\ command \in ToggleSignKeys
        /\ before.error = None
        /\ command' \in ToggleSignKeys)
           => /\ IsDecimalText(before.current)
              /\ current' = _sanitize_number(before.current)
              /\ tokens' = before.tokens
              /\ overwrite' = FALSE]_vars

(***************************************************************************)
(* C15: canonicalization is idempotent: for every valid decimal string s,  *)
(* _sanitize_number returns a text that _sanitize_number maps to itself,   *)
(* and that text has no trailing zero in its fraction, no trailing point,  *)
(* and is never "-0".                                                      *)
(***************************************************************************)
C15_SanitizeIsIdempotent ==
    (command = SanitizeCall /\ IsDecimalText(before.current))
        => /\ result.kind = "return"
           /\ result.value = _sanitize_number(before.current)
           /\ _sanitize_number(result.value) = result.value
           /\ HasChar(result.value, ".") => Last(result.value) # "0"
           /\ result.value # << >> /\ Last(result.value) # "."
           /\ result.value # <<"-", "0">>

\* C15 witness: "-0." is canonicalized to "0": the sign of the zero and the
\* trailing point are both gone.
C15_Witness ==
    /\ command = SanitizeCall
    /\ before.current = <<"-", "0", ".">>
    /\ result = Returned(<<"0">>)
    /\ current = <<"0">>

(***************************************************************************)
(* C16: only one operator is pending at a time: in every reachable state   *)
(* tokens holds at most one operator symbol.                               *)
(***************************************************************************)
OperatorPositions == {i \in 1..Len(tokens) : tokens[i] \in OPERATORS}

\* As claimed: at most one operator in tokens.
C16_AtMostOneOperator == Cardinality(OperatorPositions) <= 1

\* As the code has it: tokens may hold several operators, each with its left
\* operand right before it, and only the last of them can lack its right
\* operand.
C16_AtMostOneOperatorAwaitsOperand ==
    \A i \in OperatorPositions :
        /\ i > 1
        /\ tokens[i - 1] \notin OPERATORS
        /\ i < Len(tokens) => tokens[i + 1] \notin OPERATORS

\* C16 witness: an operator right after an operator; the second did not
\* replace the first, both are in tokens.
C16_Witness ==
    /\ command \in OPERATORS
    /\ before.overwrite
    /\ Len(before.tokens) = 2
    /\ Len(tokens) = 4
    /\ tokens[2] \in OPERATORS
    /\ tokens[4] = command

(***************************************************************************)
(* C17: in every state reached by commands of the input alphabet, current  *)
(* is a non-empty string that parses as a decimal number and holds at most *)
(* one decimal point; it is never "", "-" or "-0".                         *)
(***************************************************************************)
C17_CurrentIsADecimal ==
    /\ current # << >>
    /\ IsDecimalText(current)
    /\ Cardinality({i \in 1..Len(current) : current[i] = "."}) <= 1
    /\ current \notin {<<"-">>, <<"-", "0">>}

\* C17 witness: "." was processed while the entry already held a point, and
\* the entry stayed as it was.
C17_Witness ==
    /\ command = <<".">>
    /\ ~before.overwrite
    /\ before.error = None
    /\ HasChar(before.current, ".")
    /\ current = before.current

(***************************************************************************)
(* C18: in every reachable state in which error is set, tokens is empty,   *)
(* current is "0" and overwrite is true; a process call that is a no-op    *)
(* leaves that state as it is, the error included.                         *)
(***************************************************************************)
C18_ErrorStateIsFrozen ==
    /\ error # None
           => tokens = << >> /\ current = <<"0">> /\ overwrite = TRUE
    /\ (before.error # None /\ IsOtherCommand(command))
           => state = before /\ result = Returned(get_display(before))

\* C18 witness: the error of a division by zero is still set after a string
\* that is no command was processed.
C18_Witness ==
    /\ before.error = DivideByZeroMessage
    /\ command = <<"a">>
    /\ error = DivideByZeroMessage
    /\ current = <<"0">>

(***************************************************************************)
(* C19: Backspace with overwrite false: when current has more than one     *)
(* character the last one is removed, and if "-" or "-0" remains current   *)
(* becomes "0" and overwrite true; when current has exactly one character  *)
(* current becomes "0" and overwrite true; tokens and error are unchanged  *)
(* in every case.                                                          *)
(***************************************************************************)
C19_BackspaceRemovesLastCharacter ==
    (command \in BackspaceKeys /\ ~before.overwrite)
        => /\ tokens = before.tokens
           /\ error = before.error
           /\ Len(before.current) > 1
                  => IF Front(before.current) \in {<<"-">>, <<"-", "0">>}
                     THEN current = <<"0">> /\ overwrite = TRUE
                     ELSE current = Front(before.current)
           /\ Len(before.current) = 1
                  => current = <<"0">> /\ overwrite = TRUE

\* C19 witness: Backspace on "-5" left "-", which collapsed to "0".
C19_Witness ==
    /\ command \in BackspaceKeys
    /\ ~before.overwrite
    /\ before.current = <<"-", "5">>
    /\ current = <<"0">>
    /\ overwrite

(***************************************************************************)
(* C20: in every reachable state tokens is empty or has even length and    *)
(* ends with an operator, so the commit of an operator command and the     *)
(* merge of Equals never find a number as the last token to replace.       *)
(***************************************************************************)
C20_TokensEndWithOperator ==
    /\ tokens = << >> \/ (Len(tokens) % 2 = 0 /\ Last(tokens) \in OPERATORS)
    /\ (command \in OPERATORS \/ command = KeyEquals)
           => Started.tokens = << >> \/ Last(Started.tokens) \in OPERATORS

\* C20 witness: an operator committed a typed second operand after a pending
\* operator: four tokens, the last an operator.
C20_Witness ==
    /\ command \in OPERATORS
    /\ ~before.overwrite
    /\ Len(before.tokens) = 2
    /\ Len(tokens) = 4
    /\ tokens[3] = _sanitize_number(before.current)
    /\ Last(tokens) = command
====
